---------------------------- MODULE Spec2Model ----------------------------
(***************************************************************************)
(* Model of the Ambientika cloud-API client.                               *)
(*                                                                         *)
(*   src/src/ambientika_py/__init__.py   the Result-returning variant      *)
(*   src/src/ambientika/__init__.py      the Optional-returning variant    *)
(*                                                                         *)
(* Every public operation is one action.  The server is the environment:   *)
(* each action draws the response(s) the server gives to the request(s)    *)
(* the operation issues.  Both variants are run on the same responses;     *)
(* `result` is what the Result variant returns, `resultOpt` what the       *)
(* Optional variant returns.  An exception leaving an operation is the     *)
(* outcome Raised(..).                                                     *)
(*                                                                         *)
(* Environment assumptions: a response body is JSON exactly when the       *)
(* response's Content-Type names the JSON media type, and a 200 response   *)
(* carries a JSON body.                                                    *)
(***************************************************************************)
EXTENDS Integers, Sequences, FiniteSets, TLC

VARIABLES
    api,        \* the AmbientikaApi of the Session the caller holds, or NoSession
    devices,    \* the Device objects of the House trees the caller fetched last
    last,       \* the last call: operation, arguments and the server's responses
    requests,   \* the HTTP requests the last call issued, in order
    result,     \* what the last call returned (Result variant)
    resultOpt,  \* what the last call returned (Optional variant)
    pc          \* the caller: "idle", or "returned" from the call `last`

vars == <<api, devices, last, requests, result, resultOpt, pc>>

(* The longest listing (number of {houseId} stubs) the server returns. *)
MaxStubs == 3

-----------------------------------------------------------------------------
(* Values *)

None == [kind |-> "None"]
NoSession == [kind |-> "NoSession"]
NoParams == << >>
NoHeaders == << >>

(* Result[T, E], and an exception leaving the call (of either variant). *)
Success(v) == [tag |-> "Success", value |-> v]
Failure(e) == [tag |-> "Failure", error |-> e]
Raised(x) == [tag |-> "Raised", kind |-> "Raised", exc |-> x]

(* Optional[T]: a value or None. *)
Some(v) == [kind |-> "value", value |-> v]

HasKeys(data, keys) == keys \subseteq DOMAIN data

(* Python truthiness of what the Optional variant's get returned: None,   *)
(* an empty dict and an empty list are falsy.                              *)
Truthy(opt) == opt.kind = "value" /\ DOMAIN opt.value # {}

-----------------------------------------------------------------------------
(* Enumerations: the member names in ordinal order; a member is its ordinal. *)

OperatingMode ==
    <<"Smart", "Auto", "ManualHeatRecovery", "Night", "AwayHome", "Surveillance",
      "TimedExpulsion", "Expulsion", "Intake", "MasterSlaveFlow", "SlaveMasterFlow",
      "Off">>

FanSpeed == <<"Low", "Medium", "High">>

HumidityLevel == <<"Dry", "Normal", "Moist">>

Values(enum) == {i - 1 : i \in DOMAIN enum}

(* Enum[name]: defined for member names only (KeyError otherwise). *)
IsMember(enum, name) == \E i \in DOMAIN enum : enum[i] = name

ByName(enum, name) == (CHOOSE i \in DOMAIN enum : enum[i] = name) - 1

(* str(n) of a non-negative int: its decimal digits, most significant first. *)
Digits == <<"0", "1", "2", "3", "4", "5", "6", "7", "8", "9">>

StrLastDigit(n) == <<Digits[(n % 10) + 1]>>

RECURSIVE str(_)
str(n) ==
    IF n < 10 THEN <<Digits[n + 1]>>
    ELSE str(n \div 10) \o <<Digits[(n % 10) + 1]>>

-----------------------------------------------------------------------------
(* HTTP responses *)

ContentType == "Content-Type"
JsonType == "application/json"

(* str.lower() on the header values the server sends. *)
Lower(s) == IF s = "Application/JSON" THEN "application/json" ELSE s

HeaderGet(headers, key, default) ==
    IF key \in DOMAIN headers THEN headers[key] ELSE default

DataWithoutLower(response) ==
    IF HeaderGet(response.headers, ContentType, "") = JsonType
    THEN response.body
    ELSE None

(* The body of a non-200 response, as HttpError.data. *)
ErrorData(response) ==
    IF Lower(HeaderGet(response.headers, ContentType, "")) = JsonType
    THEN response.body
    ELSE None

(* The same check, as authenticate repeats it. *)
AuthErrorData(response) ==
    IF Lower(HeaderGet(response.headers, ContentType, "")) = JsonType
    THEN response.body
    ELSE None

HttpError(response, data) == [status_code |-> response.status, data |-> data]

(* headers = {"Authorization": f"Bearer {self.token}"} *)
Bearer(a) == ("Authorization" :> <<"Bearer ", a.token>>)

Request(method, host, path, params, headers, json) ==
    [method |-> method, host |-> host, path |-> path, params |-> params,
     headers |-> headers, json |-> json]


-----------------------------------------------------------------------------
(* Transport *)

(* AmbientikaApi.get, Result variant: the request issued and the outcome. *)
get(a, path, params, response) ==
    [requests |-> <<Request("GET", a.host, path, params, Bearer(a), None)>>,
     result |-> IF response.status = 200
                THEN Success(response.body)
                ELSE Failure(HttpError(response, ErrorData(response)))]

(* AmbientikaApi.post, Result variant. *)
post(a, path, body, response) ==
    [requests |-> <<Request("POST", a.host, path, NoParams, Bearer(a), body)>>,
     result |-> IF response.status = 200
                THEN Success(None)
                ELSE Failure(HttpError(response, ErrorData(response)))]

(* AmbientikaApi.get, Optional variant: the body on 200, else (implicitly) None. *)
get_opt(a, path, params, response) ==
    [requests |-> <<Request("GET", a.host, path, params, Bearer(a), None)>>,
     result |-> IF response.status = 200 THEN Some(response.body) ELSE None]

(* AmbientikaApi.post, Optional variant: whether the status is 200. *)
post_opt(a, path, body, response) ==
    [requests |-> <<Request("POST", a.host, path, NoParams, Bearer(a), body)>>,
     result |-> Some(response.status = 200)]

-----------------------------------------------------------------------------
(* Domain model *)

StatusKeys ==
    {"operatingMode", "fanSpeed", "humidityLevel", "temperature", "humidity",
     "airQuality", "humidityAlarm", "filtersStatus", "nightAlarm", "deviceRole",
     "lastOperatingMode", "packetType", "deviceType", "deviceSerialNumber"}

DeviceKeys ==
    {"id", "deviceType", "serialNumber", "userId", "name", "role", "zoneIndex",
     "installation", "roomId"}

RoomKeys == {"id", "name", "houseId", "userId", "devices"}

HouseKeys ==
    {"userId", "id", "name", "zones", "rooms", "hasZones", "hasDevices", "address",
     "latitude", "longitude"}

(* The dict Device.status builds; a missing key or an unknown member name is a *)
(* KeyError.                                                                   *)
StatusParses(data) ==
    /\ HasKeys(data, StatusKeys)
    /\ IsMember(OperatingMode, data.operatingMode)
    /\ IsMember(FanSpeed, data.fanSpeed)
    /\ IsMember(HumidityLevel, data.humidityLevel)
    /\ IsMember(OperatingMode, data.lastOperatingMode)

DeviceStatus(data) ==
    [operating_mode |-> ByName(OperatingMode, data.operatingMode),
     fan_speed |-> ByName(FanSpeed, data.fanSpeed),
     humidity_level |-> ByName(HumidityLevel, data.humidityLevel),
     temperature |-> data.temperature,
     humidity |-> data.humidity,
     air_quality |-> data.airQuality,
     humidity_alarm |-> data.humidityAlarm,
     filters_status |-> data.filtersStatus,
     night_alarm |-> data.nightAlarm,
     device_role |-> data.deviceRole,
     last_operating_mode |-> ByName(OperatingMode, data.lastOperatingMode),
     packet_type |-> data.packetType,
     device_type |-> data.deviceType,
     device_serial_number |-> data.deviceSerialNumber]

DeviceWithoutToken(data, a) ==
    [api |-> [a EXCEPT !.token = ""], id |-> data.id, device_type |-> data.deviceType,
     serial_number |-> data.serialNumber, user_id |-> data.userId,
     name |-> data.name, role |-> data.role, zone_index |-> data.zoneIndex,
     installation |-> data.installation, room_id |-> data.roomId]

(* Device.__init__ *)
Device(data, a) ==
    [api |-> a, id |-> data.id, device_type |-> data.deviceType,
     serial_number |-> data.serialNumber, user_id |-> data.userId,
     name |-> data.name, role |-> data.role, zone_index |-> data.zoneIndex,
     installation |-> data.installation, room_id |-> data.roomId]

(* Room.__init__ *)
Room(data, a) ==
    [api |-> a, id |-> data.id, name |-> data.name, house_id |-> data.houseId,
     user_id |-> data.userId,
     devices |-> [i \in DOMAIN data.devices |-> Device(data.devices[i], a)]]

(* House.__init__ *)
House(data, a) ==
    [user_id |-> data.userId, id |-> data.id, name |-> data.name,
     zones |-> data.zones,
     rooms |-> [i \in DOMAIN data.rooms |-> Room(data.rooms[i], a)],
     has_zones |-> data.hasZones, has_devices |-> data.hasDevices,
     address |-> data.address, latitude |-> data.latitude,
     longitude |-> data.longitude]

(* Whether House(data, api) is constructed, i.e. no data[...] lookup of the *)
(* House, Room and Device constructors meets a missing key.                 *)
RoomParses(data) ==
    /\ HasKeys(data, RoomKeys)
    /\ \A i \in DOMAIN data.devices : HasKeys(data.devices[i], DeviceKeys)

HouseParses(data) ==
    /\ HasKeys(data, HouseKeys)
    /\ \A i \in DOMAIN data.rooms : RoomParses(data.rooms[i])

DevicesOf(house) ==
    UNION {{house.rooms[i].devices[j] : j \in DOMAIN house.rooms[i].devices} :
              i \in DOMAIN house.rooms}

-----------------------------------------------------------------------------
(* Session facade, Result variant *)

(* Device.status *)
status(device, response) ==
    LET res == get(device.api, "device/device-status",
                   ("deviceSerialNumber" :> device.serial_number), response)
    IN  [requests |-> res.requests,
         result |-> IF res.result.tag = "Success"
                    THEN IF StatusParses(res.result.value)
                         THEN Success(DeviceStatus(res.result.value))
                         ELSE Raised("KeyError")
                    ELSE Failure(res.result.error)]

(* The body Device.change_mode posts. *)
ModeData(device, mode) ==
    [deviceSerialNumber |-> device.serial_number,
     operatingMode |-> str(mode.operating_mode),
     fanSpeed |-> mode.fan_speed,
     humidityLevel |-> mode.humidity_level]

(* Device.change_mode *)
change_mode(device, mode, response) ==
    post(device.api, "device/change-mode", ModeData(device, mode), response)

(* Ambientika.house_complete_info *)
house_complete_info(a, house_id, response) ==
    LET res == get(a, "house/house-complete-info", ("houseId" :> house_id), response)
    IN  [requests |-> res.requests,
         result |-> IF res.result.tag = "Success"
                    THEN IF HouseParses(res.result.value)
                         THEN Success(House(res.result.value, a))
                         ELSE Raised("KeyError")
                    ELSE Failure(res.result.error)]

(* res.value_or(None) *)
value_or(res, default) == IF res.tag = "Success" THEN res.value ELSE default

RECURSIVE fetch_houses_prepending(_, _, _, _)
fetch_houses_prepending(a, stubs, houseResp, acc) ==
    IF stubs = << >> THEN acc
    ELSE LET house == Head(stubs)
         IN  IF ~HasKeys(house, {"houseId"})
             THEN [acc EXCEPT !.raised = TRUE]
             ELSE LET id == house.houseId
                      res == house_complete_info(a, id, houseResp[id])
                      reqs == acc.requests \o res.requests
                  IN  IF res.result.tag = "Raised"
                      THEN [acc EXCEPT !.requests = reqs, !.raised = TRUE]
                      ELSE fetch_houses_prepending(a, Tail(stubs), houseResp,
                               [requests |-> reqs,
                                values |-> <<value_or(res.result, None)>>
                                           \o acc.values,
                                raised |-> FALSE])

(* [await fetch_house(house) for house in houses]: one fetch after the other, *)
(* in the order of the listing; an exception ends the comprehension.          *)
(* acc: the requests issued so far, the values collected, whether it raised.  *)
RECURSIVE fetch_houses(_, _, _, _)
fetch_houses(a, stubs, houseResp, acc) ==
    IF stubs = << >> THEN acc
    ELSE LET house == Head(stubs)
         IN  IF ~HasKeys(house, {"houseId"})
             THEN [acc EXCEPT !.raised = TRUE]
             ELSE LET id == house.houseId
                      res == house_complete_info(a, id, houseResp[id])
                      reqs == acc.requests \o res.requests
                  IN  IF res.result.tag = "Raised"
                      THEN [acc EXCEPT !.requests = reqs, !.raised = TRUE]
                      ELSE fetch_houses(a, Tail(stubs), houseResp,
                               [requests |-> reqs,
                                values |-> Append(acc.values,
                                                  value_or(res.result, None)),
                                raised |-> FALSE])

houses_empty_on_failure(a, listing, houseResp) ==
    LET res == get(a, "house/houses-info", NoParams, listing)
        f == fetch_houses(a, value_or(res.result, << >>), houseResp,
                          [requests |-> res.requests, values |-> << >>,
                           raised |-> FALSE])
    IN  [requests |-> f.requests,
         result |-> IF f.raised
                    THEN Raised("KeyError")
                    ELSE Success(SelectSeq(f.values, LAMBDA x : x # None))]

(* Ambientika.houses *)
houses(a, listing, houseResp) ==
    LET res == get(a, "house/houses-info", NoParams, listing)
    IN  IF res.result.tag = "Success"
        THEN LET f == fetch_houses(a, res.result.value, houseResp,
                          [requests |-> res.requests, values |-> << >>,
                           raised |-> FALSE])
             IN  [requests |-> f.requests,
                  result |-> IF f.raised
                             THEN Raised("KeyError")
                             ELSE Success(SelectSeq(f.values,
                                                    LAMBDA x : x # None))]
        ELSE [requests |-> res.requests, result |-> Failure(res.result.error)]

(* Ambientika.__init__ *)
Ambientika(host, id, token) == [api |-> [host |-> host, id |-> id, token |-> token]]

(* authenticate: no Authorization header on this request. *)
authenticate(username, password, host, response) ==
    [requests |-> <<Request("POST", host, "users/authenticate", NoParams, NoHeaders,
                            [username |-> username, password |-> password])>>,
     result |-> IF response.status = 200
                THEN IF HasKeys(response.body, {"id", "jwtToken"})
                     THEN Success(Ambientika(host, response.body.id,
                                             response.body.jwtToken))
                     ELSE Raised("KeyError")
                ELSE Failure(HttpError(response, AuthErrorData(response)))]

-----------------------------------------------------------------------------
(* Session facade, Optional variant *)

(* Device.status: `if data:` *)
status_opt(device, response) ==
    LET data == get_opt(device.api, "device/device-status",
                        ("deviceSerialNumber" :> device.serial_number), response)
    IN  [requests |-> data.requests,
         result |-> IF Truthy(data.result)
                    THEN IF StatusParses(data.result.value)
                         THEN Some(DeviceStatus(data.result.value))
                         ELSE Raised("KeyError")
                    ELSE None]

(* Device.change_mode *)
change_mode_opt(device, mode, response) ==
    post_opt(device.api, "device/change-mode", ModeData(device, mode), response)

(* Ambientika.house_complete_info: `if house_data:` *)
house_complete_info_opt(a, house_id, response) ==
    LET house_data == get_opt(a, "house/house-complete-info",
                              ("houseId" :> house_id), response)
    IN  [requests |-> house_data.requests,
         result |-> IF Truthy(house_data.result)
                    THEN IF HouseParses(house_data.result.value)
                         THEN Some(House(house_data.result.value, a))
                         ELSE Raised("KeyError")
                    ELSE None]

RECURSIVE fetch_houses_opt(_, _, _, _)
fetch_houses_opt(a, stubs, houseResp, acc) ==
    IF stubs = << >> THEN acc
    ELSE LET house == Head(stubs)
         IN  IF ~HasKeys(house, {"houseId"})
             THEN [acc EXCEPT !.raised = TRUE]
             ELSE LET id == house.houseId
                      res == house_complete_info_opt(a, id, houseResp[id])
                      reqs == acc.requests \o res.requests
                  IN  IF res.result.kind = "Raised"
                      THEN [acc EXCEPT !.requests = reqs, !.raised = TRUE]
                      ELSE fetch_houses_opt(a, Tail(stubs), houseResp,
                               [requests |-> reqs,
                                values |-> Append(acc.values, res.result),
                                raised |-> FALSE])

(* Ambientika.houses: `if houses:`, then the fetched houses that are truthy *)
(* (a House object is; None is not).                                        *)
houses_opt(a, listing, houseResp) ==
    LET hs == get_opt(a, "house/houses-info", NoParams, listing)
    IN  IF Truthy(hs.result)
        THEN LET f == fetch_houses_opt(a, hs.result.value, houseResp,
                          [requests |-> hs.requests, values |-> << >>,
                           raised |-> FALSE])
                 kept == SelectSeq(f.values, LAMBDA x : x.kind = "value")
             IN  [requests |-> f.requests,
                  result |-> IF f.raised
                             THEN Raised("KeyError")
                             ELSE Some([i \in DOMAIN kept |-> kept[i].value])]
        ELSE [requests |-> hs.requests, result |-> None]

(* authenticate *)
authenticate_opt(username, password, host, response) ==
    [requests |-> <<Request("POST", host, "users/authenticate", NoParams, NoHeaders,
                            [username |-> username, password |-> password])>>,
     result |-> IF response.status = 200
                THEN IF HasKeys(response.body, {"id", "jwtToken"})
                     THEN Some(Ambientika(host, response.body.id,
                                          response.body.jwtToken))
                     ELSE Raised("KeyError")
                ELSE None]

-----------------------------------------------------------------------------
(* The environment: what the caller passes and what the server answers *)

DefaultHost == "https://app.ambientika.eu:4521"
Hosts == {DefaultHost, "http://localhost:4521"}
Tokens == {"tokA", "tokB"}
HouseIds == {1, 2}

(* The media type a Content-Type value names: lower case, parameters dropped. *)
MediaType(value) ==
    IF value \in {"application/json", "Application/JSON",
                  "application/json; charset=utf-8"}
    THEN "application/json"
    ELSE value

IsJsonContentType(headers) ==
    /\ ContentType \in DOMAIN headers
    /\ MediaType(headers[ContentType]) = "application/json"

JsonErrorBody == [message |-> "denied"]
TextBody == [text |-> "<html>error</html>"]

ErrorHeaders ==
    {NoHeaders} \cup
    {(ContentType :> v) : v \in {"application/json", "Application/JSON",
                                 "application/json; charset=utf-8", "text/html"}}

Response(code, headers, body) ==
    [status |-> code, headers |-> headers, body |-> body]

Ok(body) == Response(200, (ContentType :> "application/json"), body)

Error(code, headers) ==
    Response(code, headers,
             IF IsJsonContentType(headers) THEN JsonErrorBody ELSE TextBody)

ErrorResponses == {Error(s, h) : s \in {401, 403, 500}, h \in ErrorHeaders}

Without(data, key) == [k \in DOMAIN data \ {key} |-> data[k]]

(* device-status bodies *)
StatusBody(serial, mode, speed) ==
    [operatingMode |-> mode, fanSpeed |-> speed, humidityLevel |-> "Dry",
     temperature |-> 21, humidity |-> 55, airQuality |-> "Good",
     humidityAlarm |-> FALSE, filtersStatus |-> "Good", nightAlarm |-> FALSE,
     deviceRole |-> "Master", lastOperatingMode |-> "Auto",
     packetType |-> "status", deviceType |-> "Ghost",
     deviceSerialNumber |-> serial]

GoodStatusBodies(serial) ==
    {StatusBody(serial, m, s) : m \in {"Night", "Off"}, s \in {"Low", "High"}}

BadStatusBodies(serial) ==
    {StatusBody(serial, "NotARealMode", "Low"),
     StatusBody(serial, "night", "Low"),
     StatusBody(serial, "Night", "Fast"),
     Without(StatusBody(serial, "Night", "Low"), "temperature")}

(* house-complete-info bodies: house h has one room with one device *)
Serial(h) == IF h = 1 THEN "SN-1" ELSE "SN-2"

DeviceBody(h) ==
    [id |-> h, deviceType |-> "Ghost", serialNumber |-> Serial(h), userId |-> 7,
     name |-> "Fan", role |-> "Master", zoneIndex |-> 0,
     installation |-> "Wall", roomId |-> h]

RoomBody(h, device) ==
    [id |-> h, name |-> "Living room", houseId |-> h, userId |-> 7,
     devices |-> <<device>>]

HouseBody(h, room) ==
    [userId |-> 7, id |-> h, name |-> "Home", zones |-> << >>, rooms |-> <<room>>,
     hasZones |-> FALSE, hasDevices |-> TRUE, address |-> "Via Roma",
     latitude |-> 45, longitude |-> 9]

GoodHouseBody(h) == HouseBody(h, RoomBody(h, DeviceBody(h)))

BadHouseBodies(h) ==
    {Without(GoodHouseBody(h), "address"),
     HouseBody(h, RoomBody(h, Without(DeviceBody(h), "serialNumber")))}

HouseResponses(h) ==
    {Ok(GoodHouseBody(h))} \cup {Ok(b) : b \in BadHouseBodies(h)}
    \cup {Error(401, (ContentType :> "application/json")),
          Error(500, (ContentType :> "text/html"))}

(* houses-info bodies: lists of stubs, one of them lacking its houseId *)
Stubs == {[houseId |-> h] : h \in HouseIds} \cup {[name |-> "Cabin"]}

Listings == UNION {[1..n -> Stubs] : n \in 0..MaxStubs}

ListingErrors ==
    {Error(401, (ContentType :> "application/json")),
     Error(403, (ContentType :> "application/json; charset=utf-8")),
     Error(500, (ContentType :> "text/html"))}

AuthBodies == {[id |-> 7, jwtToken |-> t] : t \in Tokens} \cup {[id |-> 7]}

DeviceModes ==
    [operating_mode : Values(OperatingMode), fan_speed : Values(FanSpeed),
     humidity_level : Values(HumidityLevel)]

GenericBody == [value |-> "x"]

-----------------------------------------------------------------------------
(* The calls *)

NoCall == [tag |-> "NoCall"]

Call(op, args, resp, houseResp) ==
    [op |-> op, args |-> args, resp |-> resp, houseResp |-> houseResp]

Init ==
    /\ api = NoSession
    /\ devices = {}
    /\ last = Call("init", None, None, << >>)
    /\ requests = << >>
    /\ result = NoCall
    /\ resultOpt = None
    /\ pc = "idle"

(* A call starts when the caller is idle and runs to its return. *)
Returns == pc = "idle" /\ pc' = "returned"

(* The model follows one Session from the authenticate call that creates it. *)
Authenticate ==
    /\ Returns
    /\ api = NoSession
    /\ \E username \in {"user"}, password \in {"pass", "wrongpass"}, host \in Hosts,
          response \in {Ok(b) : b \in AuthBodies} \cup ErrorResponses :
          LET r == authenticate(username, password, host, response)
              o == authenticate_opt(username, password, host, response)
          IN  /\ last' = Call("authenticate",
                              [username |-> username, password |-> password,
                               host |-> host], response, << >>)
              /\ requests' = r.requests
              /\ result' = r.result
              /\ resultOpt' = o.result
              /\ api' = IF r.result.tag = "Success" THEN r.result.value.api ELSE api
    /\ UNCHANGED devices

Get ==
    /\ Returns
    /\ api # NoSession
    /\ \E response \in {Ok(GenericBody)} \cup ErrorResponses :
          LET r == get(api, "house/houses-info", NoParams, response)
              o == get_opt(api, "house/houses-info", NoParams, response)
          IN  /\ last' = Call("get", None, response, << >>)
              /\ requests' = r.requests
              /\ result' = r.result
              /\ resultOpt' = o.result
    /\ UNCHANGED <<api, devices>>

Post ==
    /\ Returns
    /\ api # NoSession
    /\ \E response \in {Ok(GenericBody)} \cup ErrorResponses :
          LET r == post(api, "device/change-mode", GenericBody, response)
              o == post_opt(api, "device/change-mode", GenericBody, response)
          IN  /\ last' = Call("post", None, response, << >>)
              /\ requests' = r.requests
              /\ result' = r.result
              /\ resultOpt' = o.result
    /\ UNCHANGED <<api, devices>>

Status ==
    /\ Returns
    /\ \E device \in devices :
       \E response \in {Ok(b) : b \in GoodStatusBodies(device.serial_number)
                                      \cup BadStatusBodies(device.serial_number)}
                       \cup ErrorResponses :
          LET r == status(device, response)
              o == status_opt(device, response)
          IN  /\ last' = Call("status", [device |-> device], response, << >>)
              /\ requests' = r.requests
              /\ result' = r.result
              /\ resultOpt' = o.result
    /\ UNCHANGED <<api, devices>>

ChangeMode ==
    /\ Returns
    /\ \E device \in devices, mode \in DeviceModes,
          response \in {Ok(GenericBody), Error(401, (ContentType :> "application/json")),
                        Error(500, NoHeaders)} :
          LET r == change_mode(device, mode, response)
              o == change_mode_opt(device, mode, response)
          IN  /\ last' = Call("change_mode", [device |-> device, mode |-> mode],
                              response, << >>)
              /\ requests' = r.requests
              /\ result' = r.result
              /\ resultOpt' = o.result
    /\ UNCHANGED <<api, devices>>

HouseCompleteInfo ==
    /\ Returns
    /\ api # NoSession
    /\ \E house_id \in HouseIds :
       \E response \in HouseResponses(house_id) \cup ErrorResponses :
          LET r == house_complete_info(api, house_id, response)
              o == house_complete_info_opt(api, house_id, response)
          IN  /\ last' = Call("house_complete_info", [house_id |-> house_id],
                              response, << >>)
              /\ requests' = r.requests
              /\ result' = r.result
              /\ resultOpt' = o.result
              /\ devices' = IF r.result.tag = "Success"
                            THEN DevicesOf(r.result.value)
                            ELSE devices
    /\ UNCHANGED api

HousesWith(listing, houseResp) ==
    LET r == houses(api, listing, houseResp)
        o == houses_opt(api, listing, houseResp)
    IN  /\ last' = Call("houses", None, listing, houseResp)
        /\ requests' = r.requests
        /\ result' = r.result
        /\ resultOpt' = o.result
        /\ devices' = IF r.result.tag = "Success"
                      THEN UNION {DevicesOf(r.result.value[i]) :
                                     i \in DOMAIN r.result.value}
                      ELSE devices

Houses ==
    /\ Returns
    /\ api # NoSession
    /\ \E houseResp \in [HouseIds -> UNION {HouseResponses(h) : h \in HouseIds}] :
          /\ \A h \in HouseIds : houseResp[h] \in HouseResponses(h)
          /\ \/ \E l \in Listings : HousesWith(Ok(l), houseResp)
             \/ \E e \in ListingErrors : HousesWith(e, houseResp)
    /\ UNCHANGED api

(* The caller takes the result; nothing of the call outlives it but the *)
(* Session and the House trees it returned.                              *)
Resume ==
    /\ pc = "returned"
    /\ pc' = "idle"
    /\ last' = Call("init", None, None, << >>)
    /\ requests' = << >>
    /\ result' = NoCall
    /\ resultOpt' = None
    /\ UNCHANGED <<api, devices>>

Next ==
    \/ Resume
    \/ Authenticate
    \/ Get
    \/ Post
    \/ Status
    \/ ChangeMode
    \/ HouseCompleteInfo
    \/ Houses

Spec == Init /\ [][Next]_vars

-----------------------------------------------------------------------------
(* Properties *)

Returned(op) == pc = "returned" /\ last.op = op

(* The listing of a houses() call and the stubs' house-complete-info responses. *)
ListedStubs == last.resp.body

StubResponse(i) == last.houseResp[ListedStubs[i].houseId]

(* Every body the houses() call reads has the documented shape. *)
HousesWellFormed ==
    /\ \A i \in DOMAIN ListedStubs : HasKeys(ListedStubs[i], {"houseId"})
    /\ \A i \in DOMAIN ListedStubs :
          StubResponse(i).status = 200 => HouseParses(StubResponse(i).body)

FailedStubs == {i \in DOMAIN ListedStubs : StubResponse(i).status # 200}

FirstFailedStub == CHOOSE i \in FailedStubs : \A j \in FailedStubs : i <= j

(* C1: when the listing succeeds and a per-house house_complete_info call fails, *)
(* houses() returns a Failure, that of the first failed house, never a Success   *)
(* list that omits the failed house.                                             *)
C1_HousesPropagatesHouseFailure ==
    (/\ Returned("houses")
     /\ last.resp.status = 200
     /\ HousesWellFormed
     /\ FailedStubs # {})
    => /\ result.tag = "Failure"
       /\ result.error.status_code = StubResponse(FirstFailedStub).status

(* C2: when the listing request gets a non-200 response, houses() returns the *)
(* Failure the transport made of that response, and the listing request is    *)
(* the only request of the call (no house-complete-info request is issued).   *)
C2_ListingFailurePropagates ==
    (Returned("houses") /\ last.resp.status # 200)
    => /\ result = get(api, "house/houses-info", NoParams, last.resp).result
       /\ result.tag = "Failure"
       /\ result.error.status_code = last.resp.status
       /\ \A i \in DOMAIN requests : requests[i].path # "house/house-complete-info"
       /\ Len(requests) = 1

C2_Witness ==
    /\ Returned("houses")
    /\ last.resp.status = 401
    /\ result = Failure([status_code |-> 401, data |-> JsonErrorBody])
    /\ \E h \in HouseIds : last.houseResp[h].status = 200

(* C3: get/post: 200 gives Success (the body for get, None for post); any other *)
(* status gives Failure{status_code, data} with the response's status and with  *)
(* data the parsed body when the content-type is JSON and None otherwise.       *)
C3_TransportClassification ==
    (Returned("get") \/ Returned("post"))
    => IF last.resp.status = 200
       THEN result = Success(IF last.op = "get" THEN last.resp.body ELSE None)
       ELSE result = Failure([status_code |-> last.resp.status,
                              data |-> IF IsJsonContentType(last.resp.headers)
                                       THEN last.resp.body
                                       ELSE None])

DigitValue(c) == (CHOOSE i \in DOMAIN Digits : Digits[i] = c) - 1

RECURSIVE ParseDecimal(_)
ParseDecimal(ds) ==
    IF ds = << >> THEN 0
    ELSE ParseDecimal(SubSeq(ds, 1, Len(ds) - 1)) * 10 + DigitValue(ds[Len(ds)])

IsDecimalString(ds) ==
    /\ Len(ds) >= 1
    /\ \A i \in DOMAIN ds : \E j \in DOMAIN Digits : Digits[j] = ds[i]
    /\ Len(ds) > 1 => ds[1] # "0"

(* C5: change_mode posts {deviceSerialNumber, operatingMode, fanSpeed,          *)
(* humidityLevel} with the device's serial, the mode's ordinal as a decimal     *)
(* string, and the bare ordinals of fan speed and humidity level; reading the   *)
(* body back by ordinal gives the DeviceMode that was passed.                   *)
C5_ChangeModeEncoding ==
    Returned("change_mode")
    => LET body == requests[1].json
           mode == last.args.mode
       IN  /\ DOMAIN body = {"deviceSerialNumber", "operatingMode", "fanSpeed",
                             "humidityLevel"}
           /\ body.deviceSerialNumber = last.args.device.serial_number
           /\ IsDecimalString(body.operatingMode)
           /\ ParseDecimal(body.operatingMode) = mode.operating_mode
           /\ ParseDecimal(body.operatingMode) \in Values(OperatingMode)
           /\ body.fanSpeed = mode.fan_speed
           /\ body.humidityLevel = mode.humidity_level
           /\ [operating_mode |-> ParseDecimal(body.operatingMode),
               fan_speed |-> body.fanSpeed,
               humidity_level |-> body.humidityLevel] = mode

C5_Witness ==
    /\ Returned("change_mode")
    /\ OperatingMode[last.args.mode.operating_mode + 1] = "SlaveMasterFlow"
    /\ requests[1].json.operatingMode = <<"1", "0">>
    /\ requests[1].json.fanSpeed = 2

(* A 200 body read by the last call lacks a required key or names an unknown *)
(* enumeration member.                                                       *)
MalformedBodyRead ==
    \/ /\ Returned("status")
       /\ last.resp.status = 200
       /\ ~StatusParses(last.resp.body)
    \/ /\ Returned("house_complete_info")
       /\ last.resp.status = 200
       /\ ~HouseParses(last.resp.body)
    \/ /\ Returned("houses")
       /\ last.resp.status = 200
       /\ \A i \in DOMAIN ListedStubs : HasKeys(ListedStubs[i], {"houseId"})
       /\ ~HousesWellFormed

(* C6: a malformed 200 body makes status, house_complete_info and houses return *)
(* a failure value (UnknownEnumValue / MissingField); they do not raise.        *)
C6_ParseFailuresAreValues ==
    MalformedBodyRead => (result.tag = "Failure" /\ result.tag # "Raised")

(* Requests of C7: the Session's (host, id, token) is what authenticate returned and no     *)
(* operation changes it; every request of status, change_mode,                  *)
(* house_complete_info and houses (and of the transport calls) goes to the      *)
(* Session's host with Authorization: Bearer <token>, also when issued through  *)
(* a Device of a fetched tree; the authenticate request has no Authorization    *)
(* header.                                                                      *)
C7_BearerOnEveryRequest ==
    pc = "returned"
    => IF last.op = "authenticate"
       THEN \A i \in DOMAIN requests : "Authorization" \notin DOMAIN requests[i].headers
       ELSE /\ api # NoSession
            /\ \A i \in DOMAIN requests :
                  /\ requests[i].headers = ("Authorization" :> <<"Bearer ", api.token>>)
                  /\ requests[i].host = api.host

C7_SessionStep ==
    /\ api # NoSession => api' = api
    /\ (api = NoSession /\ api' # NoSession)
       => /\ last'.op = "authenticate"
          /\ result'.tag = "Success"
          /\ api' = [host |-> last'.args.host, id |-> last'.resp.body.id,
                     token |-> last'.resp.body.jwtToken]

(* C7: no step changes an existing Session, a Session comes from a successful *)
(* authenticate only, and every request carries the header as stated above.  *)
C7_SessionUnchanged == [][C7_SessionStep]_vars /\ []C7_BearerOnEveryRequest

C7_Witness ==
    /\ Returned("status")
    /\ api.token = "tokB"
    /\ Len(requests) = 1
    /\ requests[1].headers = ("Authorization" :> <<"Bearer ", "tokB">>)
    /\ last.args.device.api = api

Count(path) == Cardinality({i \in DOMAIN requests : requests[i].path = path})

(* C8: status, change_mode, house_complete_info and authenticate issue exactly  *)
(* one request each; houses() issues one listing request, first, and then at    *)
(* most one house-complete-info request per {houseId} stub, exactly one per     *)
(* stub (in the listing's order) when the listing succeeds.                     *)
C8_SingleAttempt ==
    /\ (\E op \in {"status", "change_mode", "house_complete_info", "authenticate"} :
           Returned(op)) => Len(requests) = 1
    /\ (/\ Returned("houses")
        /\ last.resp.status = 200
           => \A i \in DOMAIN ListedStubs : HasKeys(ListedStubs[i], {"houseId"}))
       => /\ Len(requests) >= 1
          /\ requests[1].path = "house/houses-info"
          /\ Count("house/houses-info") = 1
          /\ Count("house/house-complete-info") = Len(requests) - 1
          /\ last.resp.status # 200 => Len(requests) = 1
          /\ last.resp.status = 200
             => /\ Len(requests) = Len(ListedStubs) + 1
                /\ \A i \in DOMAIN ListedStubs :
                      requests[i + 1].params = ("houseId" :> ListedStubs[i].houseId)

(* The stubs whose house-complete-info call succeeds, in the listing's order. *)
FetchedStubs == SelectSeq(ListedStubs, LAMBDA s : last.houseResp[s.houseId].status = 200)

(* C9: a Success list of houses() holds, in the listing's order, the House built *)
(* from the house-complete-info response for each stub's own houseId.            *)
C9_HousesOrder ==
    (Returned("houses") /\ result.tag = "Success")
    => /\ Len(result.value) = Len(FetchedStubs)
       /\ \A k \in DOMAIN FetchedStubs :
             /\ result.value[k].id = FetchedStubs[k].houseId
             /\ result.value[k] =
                   House(last.houseResp[FetchedStubs[k].houseId].body, api)

C9_Witness ==
    /\ Returned("houses")
    /\ result.tag = "Success"
    /\ Len(ListedStubs) = 3
    /\ Len(result.value) = 3
    /\ <<result.value[1].id, result.value[2].id, result.value[3].id>> = <<2, 1, 2>>

(* Every body the last call read has the documented shape. *)
WellFormedCall ==
    \/ /\ Returned("status")
       /\ last.resp.status = 200 => StatusParses(last.resp.body)
    \/ /\ Returned("house_complete_info")
       /\ last.resp.status = 200 => HouseParses(last.resp.body)
    \/ /\ Returned("houses")
       /\ last.resp.status = 200 => HousesWellFormed

(* C10: on well-formed bodies the Optional variant returns a value exactly when *)
(* the Result variant returns Success, the same value, and None exactly when    *)
(* the Result variant returns Failure (status, house_complete_info, houses).    *)
C10_VariantsAgree ==
    WellFormedCall
    => /\ (resultOpt.kind = "value") <=> (result.tag = "Success")
       /\ (resultOpt.kind = "None") <=> (result.tag = "Failure")
       /\ result.tag = "Success" => resultOpt = Some(result.value)

=============================================================================
